---------------------------- MODULE Spec2Model ----------------------------
(***************************************************************************)
(* Model of countries-app/app/(tabs)/index.tsx: the App component, its     *)
(* load() routine (fetch, parse, sort, setCountries), the derived filtered *)
(* view and formatPopulation.                                              *)
(*                                                                         *)
(* Strings are sequences of UTF-16 code units (integers): "A" is 65, "a"   *)
(* is 97, "0" is 48, "." is 46, "K" is 75, "M" is 77.                      *)
(***************************************************************************)
EXTENDS Integers, Sequences, FiniteSets

VARIABLES
  countries,   \* useState<Country[]>([])                      (line 25)
  loading,     \* useState(true)                               (line 26)
  refreshing,  \* useState(false)                              (line 27)
  query,       \* useState("")                                 (line 28)
  filtered,    \* the derived view computed by each render     (lines 52-56)
  crashed,     \* a render threw: the component tree is gone
  calls,       \* position of every invocation of load()       (lines 30-46)
  triggers,    \* history: number of onRefresh events
  last,        \* history: the load() that settled most recently
  maxOk,       \* history: highest id of a load() that reached setCountries
  pop,         \* the item.population handed to formatPopulation (line 112)
  popText      \* the text formatPopulation rendered for it

vars == <<countries, loading, refreshing, query, filtered, crashed, calls,
          triggers, last, maxOk, pop, popText>>

\* Bounds of the model.
MaxFetches == 3
MaxResp == 2
MaxQueryLen == 2
MaxPopK == 4100
MaxPopM == 400

--------------------------------------------------------------------------
\* Sequences helpers.

SeqsUpTo(S, n) == UNION {[1..k -> S] : k \in 0..n}

Range(s) == {s[i] : i \in DOMAIN s}

Front(s) == SubSeq(s, 1, Len(s) - 1)

Count(s, x) == Cardinality({i \in DOMAIN s : s[i] = x})

IsPermutation(s, t) ==
  /\ Len(s) = Len(t)
  /\ \A x \in Range(s) \cup Range(t) : Count(s, x) = Count(t, x)

--------------------------------------------------------------------------
\* Country records.  A record of the response either has name.common or
\* lacks it (JSON such as {} or {"cca3": "XXX"}).

Country(name, code) == [hasName |-> TRUE, common |-> name, cca3 |-> code]

Malformed == [hasName |-> FALSE, common |-> <<>>, cca3 |-> 0]

\* The records the remote source answers with: "a" and "B".
RemoteRecords == {Country(<<97>>, 1), Country(<<66>>, 2)}

RemoteItems == RemoteRecords \cup {Malformed}

\* What res.json() resolves to: a JSON array, or JSON of another shape.
ArrayOf(items) == [kind |-> "array", items |-> items]

NotArray == [kind |-> "notarray", items |-> <<>>]

NetworkError == [kind |-> "neterr", items |-> <<>>]

BadJson == [kind |-> "badjson", items |-> <<>>]

NoResponse == [kind |-> "none", items |-> <<>>]

JsonValues == {NotArray} \cup {ArrayOf(s) : s \in SeqsUpTo(RemoteItems, MaxResp)}

--------------------------------------------------------------------------
\* String.prototype.toLowerCase on ASCII text.
toLowerCase(s) ==
  [i \in 1..Len(s) |-> IF s[i] \in 65..90 THEN s[i] + 32 ELSE s[i]]

\* String.prototype.includes.
includes(s, q) ==
  \E i \in 0..(Len(s) - Len(q)) : SubSeq(s, i + 1, i + Len(q)) = q

\* Lexicographic comparison of two sequences of integers: -1, 0 or 1.
RECURSIVE LexCompare(_, _)
LexCompare(s, t) ==
  IF s = <<>> /\ t = <<>> THEN 0
  ELSE IF s = <<>> THEN -1
  ELSE IF t = <<>> THEN 1
  ELSE IF Head(s) < Head(t) THEN -1
  ELSE IF Head(s) > Head(t) THEN 1
  ELSE LexCompare(Tail(s), Tail(t))

\* The tertiary weight of a letter: lower case sorts before upper case.
CaseWeight(s) == [i \in 1..Len(s) |-> IF s[i] \in 65..90 THEN 1 ELSE 0]

\* String.prototype.localeCompare on ASCII letters: the letters decide
\* first, whatever their case ("a" < "B"); between strings that differ only
\* in case, lower case comes first ("a" < "A").
localeCompare(a, b) ==
  LET primary == LexCompare(toLowerCase(a), toLowerCase(b))
  IN  IF primary # 0 THEN primary
      ELSE LexCompare(CaseWeight(a), CaseWeight(b))

\* A comparator that orders by code units ("B" < "a"), as a comparison
\* with < instead of localeCompare would.
compareByCodeUnits(a, b) == LexCompare(a.common, b.common)

\* The comparator of line 36-38.
compareFn(a, b) == localeCompare(a.common, b.common)

\* Array.prototype.sort(compareFn) is stable: an element goes after every
\* element that does not compare greater than it.
RECURSIVE InsertSorted(_, _)
InsertSorted(s, x) ==
  IF s = <<>> THEN <<x>>
  ELSE IF compareFn(Head(s), x) > 0 THEN <<x>> \o s
  ELSE <<Head(s)>> \o InsertSorted(Tail(s), x)

RECURSIVE sort(_)
sort(s) ==
  IF Len(s) <= 1 THEN s
  ELSE InsertSorted(sort(Front(s)), s[Len(s)])

\* Whether lines 36-38 throw.  data.sort is not a function unless data is
\* an array; the comparator reads a.name.common and b.name.common, and it is
\* called on every element as soon as there are two of them.  An array of
\* fewer than two elements is returned without any call of the comparator.
sortThrows(data) ==
  \/ data.kind # "array"
  \/ /\ Len(data.items) >= 2
     /\ \E i \in DOMAIN data.items : ~data.items[i].hasName

--------------------------------------------------------------------------
\* The derived view of lines 52-56; reading c.name.common of a record that
\* has no name throws during render.
filterThrows(C, q) == q # <<>> /\ \E i \in DOMAIN C : ~C[i].hasName

\* A filter that lowers the case of the names only.
FilterQueryAsTyped(C, q) ==
  IF q # <<>>
  THEN SelectSeq(C, LAMBDA c : includes(toLowerCase(c.common), q))
  ELSE C

Filter(C, q) ==
  IF q # <<>>
  THEN SelectSeq(C, LAMBDA c : includes(toLowerCase(c.common), toLowerCase(q)))
  ELSE C

\* One render of App with the given state.
Render(C, q) ==
  /\ crashed' = filterThrows(C, q)
  /\ filtered' = IF filterThrows(C, q) THEN <<>> ELSE Filter(C, q)

--------------------------------------------------------------------------
\* Number.prototype.toString of a non-negative integer.
RECURSIVE NatToString(_)
NatToString(n) ==
  IF n < 10 THEN <<48 + n>>
  ELSE NatToString(n \div 10) \o <<48 + (n % 10)>>

\* The last f decimal digits of m, zero padded.
RECURSIVE PaddedDigits(_, _)
PaddedDigits(m, f) ==
  IF f = 0 THEN <<>>
  ELSE PaddedDigits(m \div 10, f - 1) \o <<48 + (m % 10)>>

RECURSIVE Gcd(_, _)
Gcd(a, b) == IF b = 0 THEN a ELSE Gcd(b, a % b)

RECURSIVE Pow(_, _)
Pow(x, k) == IF k = 0 THEN 1 ELSE x * Pow(x, k - 1)

\* 2^k modulo m.
RECURSIVE Pow2Mod(_, _)
Pow2Mod(k, m) == IF k = 0 THEN 1 % m ELSE (2 * Pow2Mod(k - 1, m)) % m

\* The largest e with 2^e * b <= a, for a >= b > 0.
RECURSIVE Log2Floor(_, _)
Log2Floor(a, b) == IF 2 * b > a THEN 0 ELSE 1 + Log2Floor(a, 2 * b)

\* The part of b that is a power of two: the s with b = 2^s * odd.
RECURSIVE TwoExponent(_)
TwoExponent(b) == IF b % 2 = 1 THEN 0 ELSE 1 + TwoExponent(b \div 2)

\* The sign of (the IEEE-754 double nearest to a/b) - a/b, for a >= b > 0:
\* the division pop / 1000000 of line 60 is rounded to 53 significant bits.
\* With a/b = a1 / (2^s * o) in lowest terms and 2^e <= a/b < 2^(e+1), the
\* significand is a1 * 2^(52-e-s) / o, rounded to the nearest integer.
DoubleError(a, b) ==
  LET g  == Gcd(a, b)
      a1 == a \div g
      b1 == b \div g
      s  == TwoExponent(b1)
      o  == b1 \div Pow(2, s)
      e  == Log2Floor(a1, b1)
      rem == ((a1 % o) * Pow2Mod(52 - e - s, o)) % o
  IN  IF rem = 0 THEN 0 ELSE IF 2 * rem < o THEN -1 ELSE 1

\* The integer n of Number.prototype.toFixed(f) applied to the double a/b:
\* n / 10^f is as close as possible to the double, and of two such n the
\* larger is taken.  The double differs from a/b by far less than a/b
\* differs from the nearest half-way point unless a/b is itself half-way;
\* there the rounding error of the division decides.
toFixedInteger(a, b, f) ==
  LET S == a * Pow(10, f)
      q == S \div b
      r == S % b
  IN  IF 2 * r < b THEN q
      ELSE IF 2 * r > b THEN q + 1
      ELSE IF DoubleError(a, b) < 0 THEN q ELSE q + 1

\* (a / b).toFixed(f) as text.
toFixed(a, b, f) ==
  LET n == toFixedInteger(a, b, f)
  IN  IF f = 0 THEN NatToString(n)
      ELSE NatToString(n \div Pow(10, f)) \o <<46>>
             \o PaddedDigits(n % Pow(10, f), f)

\* A formatPopulation whose thresholds are exclusive.
formatPopulationExclusive(p) ==
  IF p > 1000000 THEN toFixed(p, 1000000, 1) \o <<77>>
  ELSE IF p > 1000 THEN toFixed(p, 1000, 0) \o <<75>>
  ELSE NatToString(p)

\* Lines 58-65.
formatPopulation(p) ==
  IF p >= 1000000 THEN toFixed(p, 1000000, 1) \o <<77>>
  ELSE IF p >= 1000 THEN toFixed(p, 1000, 0) \o <<75>>
  ELSE NatToString(p)

--------------------------------------------------------------------------
\* The invocations of load(), numbered in the order they start.
LoadIds == 1..MaxFetches

started == Cardinality({id \in LoadIds : calls[id] # "idle"})

inFlight == {id \in LoadIds : calls[id] \in {"fetch", "json"}}

\* The state after construction (lines 25-28), before the effect has run.
Init ==
  /\ countries = <<>>
  /\ loading = TRUE
  /\ refreshing = FALSE
  /\ query = <<>>
  /\ filtered = <<>>
  /\ crashed = FALSE
  /\ calls = [id \in LoadIds |-> "idle"]
  /\ triggers = 0
  /\ last = [id |-> 0, resp |-> NoResponse, caught |-> FALSE]
  /\ maxOk = 0
  /\ pop = 0
  /\ popText = <<>>

\* While loading is true App returns the indicator alone (lines 67-74):
\* the TextInput and the FlatList exist only once loading is false.
listShown == ~loading /\ ~crashed

\* A call of load(): the fetch of lines 32-34 is issued.
StartLoad ==
  /\ started < MaxFetches
  /\ calls' = [calls EXCEPT ![started + 1] = "fetch"]

\* useEffect(() => { load(); }, []) (lines 48-50): once, after the first
\* render.
Mount ==
  /\ ~crashed
  /\ started = 0
  /\ StartLoad
  /\ UNCHANGED <<countries, loading, refreshing, query, filtered, crashed,
                 triggers, last, maxOk, pop, popText>>

\* A refresh handler that raises the refreshing flag before loading.
RefreshRaisingFlag ==
  /\ listShown
  /\ StartLoad
  /\ triggers' = triggers + 1
  /\ refreshing' = TRUE
  /\ UNCHANGED <<countries, loading, query, filtered, crashed, last, maxOk,
                 pop, popText>>

\* The user pulls the list: onRefresh={load} (line 93).
Refresh ==
  /\ listShown
  /\ StartLoad
  /\ triggers' = triggers + 1
  /\ UNCHANGED <<countries, loading, refreshing, query, filtered, crashed,
                 last, maxOk, pop, popText>>

\* onChangeText={setQuery} (line 86), and the render that follows.
SetQuery(q) ==
  /\ listShown
  /\ query' = q
  /\ Render(countries, q)
  /\ UNCHANGED <<countries, loading, refreshing, calls, triggers, last,
                 maxOk, pop, popText>>

\* A finally block that forgets setLoading(false).
FinallyKeepingLoading ==
  /\ loading' = loading
  /\ refreshing' = FALSE

\* The finally block (lines 42-45).
Finally ==
  /\ loading' = FALSE
  /\ refreshing' = FALSE

\* The catch block (lines 40-41) and the finally block: the error is
\* logged, the collection is not touched.
Catch(id, resp) ==
  /\ calls' = [calls EXCEPT ![id] = "done"]
  /\ last' = [id |-> id, resp |-> resp, caught |-> TRUE]
  /\ Finally
  /\ UNCHANGED <<countries, query, filtered, crashed, triggers, maxOk, pop,
                 popText>>

\* A rejection handler that calls load() again by itself.
FetchRejectedRetrying(id) ==
  /\ ~crashed
  /\ calls[id] = "fetch"
  /\ calls' = IF started < MaxFetches
              THEN [calls EXCEPT ![id] = "done", ![started + 1] = "fetch"]
              ELSE [calls EXCEPT ![id] = "done"]
  /\ last' = [id |-> id, resp |-> NetworkError, caught |-> TRUE]
  /\ Finally
  /\ UNCHANGED <<countries, query, filtered, crashed, triggers, maxOk, pop,
                 popText>>

\* await fetch(...) rejects: a network failure.
FetchRejected(id) ==
  /\ ~crashed
  /\ calls[id] = "fetch"
  /\ Catch(id, NetworkError)

\* await fetch(...) resolves with a response; res.json() is awaited next.
FetchResolved(id) ==
  /\ ~crashed
  /\ calls[id] = "fetch"
  /\ calls' = [calls EXCEPT ![id] = "json"]
  /\ UNCHANGED <<countries, loading, refreshing, query, filtered, crashed,
                 triggers, last, maxOk, pop, popText>>

\* await res.json() rejects: the body is not JSON.
JsonRejected(id) ==
  /\ ~crashed
  /\ calls[id] = "json"
  /\ Catch(id, BadJson)

\* A success path that appends the response to the collection it had.
JsonResolvedMerging(id, data) ==
  /\ ~crashed
  /\ calls[id] = "json"
  /\ IF sortThrows(data)
     THEN Catch(id, data)
     ELSE /\ countries' = sort(countries \o data.items)
          /\ Render(sort(countries \o data.items), query)
          /\ calls' = [calls EXCEPT ![id] = "done"]
          /\ last' = [id |-> id, resp |-> data, caught |-> FALSE]
          /\ maxOk' = IF id > maxOk THEN id ELSE maxOk
          /\ Finally
          /\ UNCHANGED <<query, triggers, pop, popText>>

\* A success path that drops the response of a load() started before one
\* that has already delivered.
JsonResolvedNewestOnly(id, data) ==
  /\ ~crashed
  /\ calls[id] = "json"
  /\ IF sortThrows(data)
     THEN Catch(id, data)
     ELSE /\ countries' = IF id > maxOk THEN sort(data.items) ELSE countries
          /\ Render(IF id > maxOk THEN sort(data.items) ELSE countries, query)
          /\ calls' = [calls EXCEPT ![id] = "done"]
          /\ last' = [id |-> id, resp |-> data, caught |-> FALSE]
          /\ maxOk' = IF id > maxOk THEN id ELSE maxOk
          /\ Finally
          /\ UNCHANGED <<query, triggers, pop, popText>>

\* await res.json() resolves with data: lines 36-39, then the catch block
\* if they threw, then the finally block, then the render.
JsonResolved(id, data) ==
  /\ ~crashed
  /\ calls[id] = "json"
  /\ IF sortThrows(data)
     THEN Catch(id, data)
     ELSE /\ countries' = sort(data.items)
          /\ Render(sort(data.items), query)
          /\ calls' = [calls EXCEPT ![id] = "done"]
          /\ last' = [id |-> id, resp |-> data, caught |-> FALSE]
          /\ maxOk' = IF id > maxOk THEN id ELSE maxOk
          /\ Finally
          /\ UNCHANGED <<query, triggers, pop, popText>>

\* The text the user types in this specification: nothing, or "a".
TypedQueries == {<<>>, <<97>>}

\* The fetch of load() number id settles, either way.
FetchSettles(id) == FetchRejected(id) \/ FetchResolved(id)

\* res.json() of load() number id settles, either way.
JsonSettles(id) ==
  /\ calls[id] = "json"
  /\ \/ JsonRejected(id)
     \/ \E data \in JsonValues : JsonResolved(id, data)

Next ==
  \/ Mount
  \/ Refresh
  \/ \E q \in TypedQueries : SetQuery(q)
  \/ \E id \in LoadIds : FetchRejected(id)
  \/ \E id \in LoadIds : FetchResolved(id)
  \/ \E id \in LoadIds : JsonRejected(id)
  \/ \E id \in LoadIds : \E data \in JsonValues : JsonResolved(id, data)

Spec == Init /\ [][Next]_vars

\* Every promise settles and the effect runs: the assumption under which
\* the liveness of the loading flag is stated.
Fairness ==
  /\ WF_vars(Mount)
  /\ \A id \in LoadIds : WF_vars(FetchSettles(id))
  /\ \A id \in LoadIds : WF_vars(JsonSettles(id))

FairSpec == Init /\ [][Next]_vars /\ Fairness

--------------------------------------------------------------------------
\* The derived view as a function of its inputs: any collection, any query.

FilterNames ==
  {<<97>>, <<65>>, <<98>>, <<65, 98>>, <<98, 97>>, <<66, 65, 98>>}

FilterRecords == {Country(n, 1) : n \in FilterNames}

Queries == SeqsUpTo({65, 97, 98}, MaxQueryLen)

FilterInit ==
  /\ countries \in SeqsUpTo(FilterRecords, MaxResp)
  /\ loading = FALSE
  /\ refreshing = FALSE
  /\ query = <<>>
  /\ filtered = Filter(countries, <<>>)
  /\ crashed = FALSE
  /\ calls = [id \in LoadIds |-> IF id = 1 THEN "done" ELSE "idle"]
  /\ triggers = 0
  /\ last = [id |-> 1, resp |-> ArrayOf(countries), caught |-> FALSE]
  /\ maxOk = 1
  /\ pop = 0
  /\ popText = <<>>

FilterNext == \E q \in Queries : SetQuery(q)

FilterSpec == FilterInit /\ [][FilterNext]_vars

--------------------------------------------------------------------------
\* formatPopulation as a function of its input.

PopInputs ==
  {n \in {k * 500 + d : k \in 0..MaxPopK, d \in {-1, 0, 1}} : n >= 0}
    \cup {n \in {m * 50000 + d : m \in 0..MaxPopM, d \in {-1, 0, 1}} : n >= 0}

PopInit ==
  /\ pop \in PopInputs
  /\ popText = <<>>
  /\ countries = <<>>
  /\ loading = FALSE
  /\ refreshing = FALSE
  /\ query = <<>>
  /\ filtered = <<>>
  /\ crashed = FALSE
  /\ calls = [id \in LoadIds |-> IF id = 1 THEN "done" ELSE "idle"]
  /\ triggers = 0
  /\ last = [id |-> 1, resp |-> ArrayOf(<<>>), caught |-> FALSE]
  /\ maxOk = 1

\* renderItem formats the population of an item (line 112).
RenderPopulation ==
  /\ popText = <<>>
  /\ popText' = formatPopulation(pop)
  /\ UNCHANGED <<countries, loading, refreshing, query, filtered, crashed,
                 calls, triggers, last, maxOk, pop>>

PopNext == RenderPopulation

PopSpec == PopInit /\ [][PopNext]_vars

--------------------------------------------------------------------------
\* Properties.

\* Two code units that are the same letter, whatever their case.
SameLetter(c, d) ==
  \/ c = d
  \/ c \in 65..90 /\ d = c + 32
  \/ d \in 65..90 /\ c = d + 32

\* q occurs in s as a substring, ignoring case.
ContainsIgnoringCase(s, q) ==
  \E i \in 0..(Len(s) - Len(q)) :
    \A j \in 1..Len(q) : SameLetter(s[i + j], q[j])

\* s can be obtained from t by deleting elements.
RECURSIVE IsSubsequence(_, _)
IsSubsequence(s, t) ==
  IF s = <<>> THEN TRUE
  ELSE IF t = <<>> THEN FALSE
  ELSE IF Head(s) = Head(t) THEN IsSubsequence(Tail(s), Tail(t))
  ELSE IsSubsequence(s, Tail(t))

\* A load() settles in this step.
Settles(id) == calls[id] # "done" /\ calls'[id] = "done"

\* C1: the filtered view is exactly the entries of the collection whose
\* commonName contains the query as a case-insensitive substring, in the
\* order of the collection (a sub-sequence of it); with the empty query it
\* is the collection itself.
FilteredViewContract ==
  /\ filtered =
       SelectSeq(countries, LAMBDA c : ContainsIgnoringCase(c.common, query))
  /\ IsSubsequence(filtered, countries)
  /\ query = <<>> => filtered = countries

\* The query "A" against the collection "b", "ba" leaves "ba" alone.
FilteredViewWitness ==
  /\ query = <<65>>
  /\ countries = <<Country(<<98>>, 1), Country(<<98, 97>>, 1)>>
  /\ filtered = <<Country(<<98, 97>>, 1)>>

\* C2: in every reachable state the collection is sorted ascending by
\* commonName: each entry locale-compares less than or equal to the next.
CollectionSorted ==
  \A i \in 1..(Len(countries) - 1) :
    /\ countries[i].hasName
    /\ countries[i + 1].hasName
    /\ localeCompare(countries[i].common, countries[i + 1].common) <= 0

\* The response "B", "a" has been stored as "a", "B".
CollectionSortedWitness ==
  /\ ~last.caught
  /\ last.resp = ArrayOf(<<Country(<<66>>, 2), Country(<<97>>, 1)>>)
  /\ countries = <<Country(<<97>>, 1), Country(<<66>>, 2)>>

\* C3: the collection starts empty, stays empty until a fetch succeeds, and
\* right after a fetch succeeds it is a permutation of the records of that
\* response: none dropped, none duplicated, none kept from before.
ReplacedWholesale ==
  /\ countries = <<>>
  /\ [][/\ (maxOk' = 0) => (countries' = <<>>)
        /\ \A id \in LoadIds :
             (Settles(id) /\ ~last'.caught)
               => IsPermutation(countries', last'.resp.items)]_vars

\* A refresh has replaced the collection by a two-record response that
\* arrived in another order.
ReplacedWholesaleWitness ==
  /\ last.id >= 2
  /\ ~last.caught
  /\ Len(last.resp.items) = 2
  /\ countries # last.resp.items
  /\ IsPermutation(countries, last.resp.items)

\* A response that is not of the expected shape: no response at all, a
\* body that is not JSON, JSON that is not an array, or an array with a
\* record that has no name.common.
ShapeFails(resp) ==
  \/ resp.kind \in {"neterr", "badjson", "notarray"}
  \/ \E i \in DOMAIN resp.items : ~resp.items[i].hasName

\* C4: when a fetch fails (network failure, or a response not of the
\* expected shape) the error is caught inside load and the collection is
\* left exactly as it was.
FailureLeavesCollection ==
  [][\A id \in LoadIds :
       (Settles(id) /\ ShapeFails(last'.resp))
         => (last'.caught /\ countries' = countries)]_vars

\* A decimal numeral: digits only, no leading zero except "0" itself.
IsNumeral(s) ==
  /\ s # <<>>
  /\ \A i \in DOMAIN s : s[i] \in 48..57
  /\ Len(s) > 1 => s[1] # 48

RECURSIVE NumeralValue(_)
NumeralValue(s) ==
  IF s = <<>> THEN 0 ELSE 10 * NumeralValue(Front(s)) + (s[Len(s)] - 48)

IsDecimalOf(s, n) == IsNumeral(s) /\ NumeralValue(s) = n

Abs(x) == IF x < 0 THEN -x ELSE x

\* What formatPopulation(n) may be, for a non-negative integer n: m and t
\* are n/1000 and 10 * n/1000000 rounded to a nearest integer.
PopulationText(n, s) ==
  IF n < 1000 THEN IsDecimalOf(s, n)
  ELSE IF n < 1000000
  THEN \E m \in {n \div 1000, n \div 1000 + 1} :
         /\ 2 * Abs(1000 * m - n) <= 1000
         /\ Len(s) >= 2
         /\ s[Len(s)] = 75
         /\ IsDecimalOf(Front(s), m)
  ELSE \E t \in {n \div 100000, n \div 100000 + 1} :
         /\ 2 * Abs(100000 * t - n) <= 100000
         /\ Len(s) >= 4
         /\ s[Len(s)] = 77
         /\ s[Len(s) - 1] = 48 + (t % 10)
         /\ s[Len(s) - 2] = 46
         /\ IsDecimalOf(SubSeq(s, 1, Len(s) - 3), t \div 10)

\* C5: formatPopulation(n) is the plain decimal string of n below 1,000;
\* n/1,000 rounded to the nearest integer and "K" from 1,000 up to 1,000,000;
\* n/1,000,000 rounded to one decimal place and "M" from 1,000,000 on.
\* 0 gives "0", 999 "999", 1,000 "1K", 1,000,000 "1.0M", 1,500,000 "1.5M".
PopulationFormatted ==
  popText # <<>> =>
    /\ PopulationText(pop, popText)
    /\ pop = 0 => popText = <<48>>
    /\ pop = 999 => popText = <<57, 57, 57>>
    /\ pop = 1000 => popText = <<49, 75>>
    /\ pop = 1000000 => popText = <<49, 46, 48, 77>>
    /\ pop = 1500000 => popText = <<49, 46, 53, 77>>

\* 1,150,000 has been rendered, as "1.1M".
PopulationFormattedWitness ==
  /\ pop = 1150000
  /\ popText = <<49, 46, 49, 77>>

\* C6: at most one fetch is outstanding at any time.
AtMostOneFetch == Cardinality(inFlight) <= 1

\* C7: no fetch is started automatically: the fetches started never exceed
\* one plus the refresh triggers, and a step that starts a fetch is the
\* initial load or a refresh trigger.
NoAutomaticFetch ==
  /\ [](started <= 1 + triggers)
  /\ [][started' # started
         => /\ started' = started + 1
            /\ started = 0 \/ triggers' = triggers + 1]_vars

\* A refresh fetch has failed and nothing is in flight.
NoAutomaticFetchWitness ==
  /\ last.id >= 2
  /\ last.caught
  /\ inFlight = {}
  /\ started = 1 + triggers

\* C8: when a fetch delivers after a fetch that was started later, the
\* collection holds the records of the one that delivered last.
LastDeliveryWins ==
  (last.id # 0 /\ ~last.caught /\ last.id < maxOk)
    => IsPermutation(countries, last.resp.items)

\* The second load() delivered "B" after the third had delivered.
LastDeliveryWinsWitness ==
  /\ last.id = 2
  /\ maxOk = 3
  /\ ~last.caught
  /\ countries = <<Country(<<66>>, 2)>>

\* C9: loading is true at first, becomes false when the first fetch
\* settles (in success or in failure) and at no other step, is never true
\* again, and does become false; while it is true no query is typed and no
\* refresh is triggered.
LoadingLifecycle ==
  /\ loading = TRUE
  /\ [][/\ (\E id \in LoadIds : Settles(id)) => ~loading'
        /\ ~loading => ~loading'
        /\ (loading /\ ~loading') => Settles(1)
        /\ loading => /\ query' = query
                       /\ triggers' = triggers
                       /\ \A id \in LoadIds \ {1} : calls'[id] = "idle"]_vars
  /\ <>(~loading)

\* A refresh fetch is in flight and loading is false.
LoadingLifecycleWitness ==
  /\ ~loading
  /\ triggers >= 1
  /\ inFlight # {}

\* C10: refreshing is false in every reachable state.
RefreshingNeverTrue == refreshing = FALSE

\* A refresh fetch is in flight and refreshing is false.
RefreshingNeverTrueWitness ==
  /\ triggers >= 1
  /\ 2 \in inFlight
  /\ ~refreshing

==========================================================================
